---- MODULE Spec2Model ----
(***************************************************************************)
(* instakit: processor containers (instakit.abc, instakit.utils.pipeline). *)
(*                                                                         *)
(* Python objects live in a heap (a sequence of cells, the index is the    *)
(* object's identity).  A value is a record [t, n]: the None object, the   *)
(* NOOp class, a CMYKInk enum member (n is its enum value), a string (s)   *)
(* or a reference to a heap object (n is its index).  An image is the      *)
(* source image, the band taken from it and the sequence of processors     *)
(* applied to it so far.  Objects nothing refers to any more are reclaimed *)
(* at the end of each operation, and a new object takes a free cell.       *)
(***************************************************************************)
EXTENDS Integers, Sequences, FiniteSets, TLC

\* ------------------------------------------------------------------ bounds
InitLeaves == 1     \* processor instances the caller constructed beforehand
MaxLen == 2         \* length of a list the caller passes or grows by hand
NumImages == 1      \* distinct source images
MaxKw == 1          \* keyword arguments in one call
MaxChain == 5       \* steps of a pipeline that ink augmentation has grown
MaxBands == 5       \* bands an overriding split returns

\* --------------------------------------------------------------- constants
WHITE == 0
CYAN == 1
MAGENTA == 2
YELLOW == 3
KEY == 4

\* ------------------------------------------------------------------ values
NoneV == [t |-> "None", n |-> 0, s |-> ""]
NOOpClass == [t |-> "NOOpClass", n |-> 0, s |-> ""]
InkV(i) == [t |-> "ink", n |-> i, s |-> ""]
Obj(i) == [t |-> "obj", n |-> i, s |-> ""]
StrV(x) == [t |-> "str", n |-> 0, s |-> x]
BoolV(b) == [t |-> "bool", n |-> IF b THEN 1 ELSE 0, s |-> ""]
IntV(k) == [t |-> "int", n |-> k, s |-> ""]

\* a processor instance whose process(image) raises the exception e
Failing(e) == [t |-> "failing", n |-> 0, s |-> e]

\* CMYKInk.CMYK(): the inks in C, M, Y, K order
inks == <<InkV(CYAN), InkV(MAGENTA), InkV(YELLOW), InkV(KEY)>>

\* Mode.<m>.bands of instakit.utils.mode
Bands(m) ==
    CASE m = "RGB" -> <<"R", "G", "B">>
      [] OTHER -> <<"C", "M", "Y", "K">>

Modes == {"RGB", "CMYK"}

\* Mode.for_string(name): the mode of that name, or a failure
for_string(name) ==
    IF name \in Modes THEN [err |-> "", t |-> "mode", m |-> name]
    ELSE [err |-> "TypeError", t |-> "unresolved", m |-> ""]

\* `value in (None, NOOp)`
IsSentinel(v) == v.t \in {"None", "NOOpClass"}

\* ------------------------------------------------------------------- heap
Cell(kind, items) == [kind |-> kind, items |-> items]

IsKind(h, v, kind) == v.t = "obj" /\ v.n \in 1..Len(h) /\ h[v.n].kind = kind

\* hasattr(processor, 'append'): only the mutable sequence defines it
\* among the values a band can hold here
HasAppend(h, v) == IsKind(h, v, "Pipeline")

\* ------------------------------------------------------------------ images
SrcImage(s) == [src |-> s, how |-> "src", band |-> "", ops |-> <<>>]
NoImg == [how |-> "none", mode |-> "", parts |-> <<>>]

\* an image a sequence container returned
Flat(im) == [how |-> "flat", mode |-> "", parts |-> <<im>>]

PR(e, im) == [err |-> e, img |-> im]

\* Ink.process: colorize the image with this ink
InkProcess(v, im) == [im EXCEPT !.ops = Append(@, v)]

\* NOOp.process
NOOpProcess(im) == im

RECURSIVE ProcessVal(_, _, _)
RECURSIVE PipelineProcessMut(_, _, _)
RECURSIVE PipelineProcess(_, _, _)
RECURSIVE PipeProcess(_, _, _)

\* p.process(image) for whatever value p is
ProcessVal(h, v, im) ==
    CASE v.t = "None" -> PR("AttributeError", im)
      [] v.t = "NOOpClass" -> PR("TypeError", im)
      [] v.t = "str" -> PR("AttributeError", im)
      [] v.t = "ink" -> PR("", InkProcess(v, im))
      [] v.t = "failing" -> PR(v.s, im)
      [] OTHER ->
           LET c == h[v.n] IN
           CASE c.kind = "NOOp" -> PR("", NOOpProcess(im))
             [] c.kind = "Leaf" -> PR("", [im EXCEPT !.ops = Append(@, v)])
             [] c.kind = "Pipeline" -> PipelineProcess(h, c.items, im)
             [] OTHER -> PipeProcess(h, c.items, im)

\* a Pipeline.process that applies its steps last to first
PipelineProcessMut(h, items, im) ==
    IF items = <<>> THEN PR("", im)
    ELSE LET r == ProcessVal(h, items[Len(items)], im) IN
         IF r.err # "" THEN r
         ELSE PipelineProcessMut(h, SubSeq(items, 1, Len(items) - 1), r.img)

\* Pipeline.process
PipelineProcess(h, items, im) ==
    IF items = <<>> THEN PR("", im)
    ELSE LET r == ProcessVal(h, Head(items), im) IN
         IF r.err # "" THEN r ELSE PipelineProcess(h, Tail(items), r.img)

\* Pipe.process
PipeProcess(h, items, im) ==
    IF items = <<>> THEN PR("", im)
    ELSE LET r == ProcessVal(h, Head(items), im) IN
         IF r.err # "" THEN r ELSE PipeProcess(h, Tail(items), r.img)

\* ------------------------------------------------------------------- state
VARIABLES
    heap,       \* the objects: heap[i] is the cell of object i
    cls,        \* class of the fork under study; "none" before it is built
    factory,    \* the fork's dict.default_factory (a class name)
    mode_t,     \* the fork's mode_t
    dict,       \* the fork's dict: band label -> value
    op,         \* the operation that ran last and its arguments
    out         \* what it returned or raised, and the factory calls it made

vars == <<heap, cls, factory, mode_t, dict, op, out>>

EmptyDict == [k \in {} |-> NoneV]

Put(d, k, v) == (k :> v) @@ d
Drop(d, k) == [x \in DOMAIN d \ {k} |-> d[x]]

Op(name, c, k, v, i) == [name |-> name, c |-> c, k |-> k, v |-> v, i |-> i]

NoOut == [err |-> "", val |-> NoneV, calls |-> 0, seq |-> <<>>, img |-> NoImg]
Raise(e) == [NoOut EXCEPT !.err = e]

Images == 1..NumImages

\* sequences over S of length at most n
SeqsUpTo(S, n) == UNION {[1..m -> S] : m \in 0..n}

\* the values of a sequence
Range(s) == {s[i] : i \in 1..Len(s)}

\* the processor instances the caller constructed itself
Leaves == {Obj(i) : i \in 1..InitLeaves}

\* the cell of the one container the caller builds itself
Slot == InitLeaves + 1

Free == Cell("free", <<>>)

\* Every object is made on behalf of an owner: the caller's container ("")
\* or a band of the fork.  The cells after Slot are divided into one pool
\* of PoolSize cells for each owner.
Owners == <<"", "C", "M", "Y", "K", "R", "G", "B">>
PoolSize == MaxLen + 2
Pool(o) ==
    LET p == CHOOSE i \in 1..Len(Owners) : Owners[i] = o IN
    (Slot + (p - 1) * PoolSize + 1)..(Slot + p * PoolSize)

\* the cell a new object made for owner o takes: the lowest free one of
\* the owner's pool
Alloc(h, o) ==
    LET free == {i \in Pool(o) : i > Len(h) \/ h[i].kind = "free"} IN
    CHOOSE i \in free : \A j \in free : i <= j

\* the heap with a new object in it
New(h, o, cell) ==
    LET a == Alloc(h, o)
        h1 == IF a > Len(h) THEN h \o [j \in 1..(a - Len(h)) |-> Free] ELSE h
    IN  [h1 EXCEPT ![a] = cell]

\* the objects among a set of values
ObjsOf(S) == {v.n : v \in {x \in S : x.t = "obj"}}

RECURSIVE Reach(_, _)
\* the objects reachable from the objects S through container items
Reach(h, S) ==
    LET T == S \cup UNION {ObjsOf(Range(h[i].items)) : i \in S} IN
    IF T = S THEN S ELSE Reach(h, T)

\* the heap after the objects nothing refers to are reclaimed: the caller
\* holds its own objects and what the last call returned, the fork holds
\* the values of its dict
Collect(h, d, o) ==
    LET roots == (1..Slot) \cup ObjsOf({d[k] : k \in DOMAIN d})
                    \cup ObjsOf({o.val}) \cup ObjsOf(Range(o.seq))
        live == Reach(h, roots)
        top == CHOOSE i \in live : \A j \in live : j <= i
    IN  [i \in 1..top |-> IF i \in live THEN h[i] ELSE Free]

\* the pipelines and pipes on the heap
Pipelines(h) == {i \in 1..Len(h) : h[i].kind = "Pipeline"}
Pipes(h) == {i \in 1..Len(h) : h[i].kind = "Pipe"}

\* what a caller puts into a sequence container: a processor instance, an
\* ink, or None
ItemVals == {NoneV, InkV(CYAN)} \cup Leaves

\* no pipeline has grown beyond MaxChain steps
Capped(h) == \A i \in Pipelines(h) : Len(h[i].items) <= MaxChain

\* the caller has not built its container yet
CanBuild == heap[Slot].kind = "free"

Init ==
    /\ heap = [i \in 1..Slot |-> IF i = Slot THEN Free ELSE Cell("Leaf", <<>>)]
    /\ cls = "none"
    /\ factory = "NOOp"
    /\ mode_t = "RGB"
    /\ dict = EmptyDict
    /\ op = Op("init", 0, "", NoneV, 0)
    /\ out = NoOut

ForkUnchanged == UNCHANGED <<cls, factory, mode_t, dict>>

\* ------------------------------------------------------ Pipe and Pipeline
\* Pipeline(args): self.list = list(args)
PipelineInit(args) ==
    /\ CanBuild
    /\ out' = [NoOut EXCEPT !.val = Obj(Slot)]
    /\ heap' = Collect([heap EXCEPT ![Slot] = Cell("Pipeline", args)], dict, out')
    /\ op' = Op("Pipeline", Slot, "", NoneV, 0)
    /\ ForkUnchanged

\* Pipe(args): self.tuple = tuple(args)
PipeInit(args) ==
    /\ CanBuild
    /\ out' = [NoOut EXCEPT !.val = Obj(Slot)]
    /\ heap' = Collect([heap EXCEPT ![Slot] = Cell("Pipe", args)], dict, out')
    /\ op' = Op("Pipe", Slot, "", NoneV, 0)
    /\ ForkUnchanged

\* Pipeline.__setitem__(idx, value), idx counted from 0
PipelineSetItem(p, idx, value) ==
    /\ op' = Op("Pipeline.setitem", p, "", value, idx)
    /\ ForkUnchanged
    /\ LET h1 == IF IsSentinel(value) THEN New(heap, "", Cell("NOOp", <<>>))
                 ELSE heap
           v1 == IF IsSentinel(value) THEN Obj(Alloc(heap, "")) ELSE value
       IN  IF idx >= Len(heap[p].items)
           THEN /\ out' = Raise("IndexError")
                /\ heap' = Collect(h1, dict, out')
           ELSE /\ out' = NoOut
                /\ heap' = Collect([h1 EXCEPT ![p].items[idx + 1] = v1],
                                   dict, out')

\* Pipeline.__delitem__(idx)
PipelineDelItem(p, idx) ==
    /\ op' = Op("Pipeline.delitem", p, "", NoneV, idx)
    /\ ForkUnchanged
    /\ LET its == heap[p].items IN
       IF idx >= Len(its)
       THEN /\ out' = Raise("IndexError")
            /\ heap' = heap
       ELSE /\ out' = NoOut
            /\ heap' = Collect([heap EXCEPT ![p].items =
                            SubSeq(its, 1, idx) \o SubSeq(its, idx + 2, Len(its))],
                               dict, out')

\* Pipeline.append(value)
PipelineAppend(p, value) ==
    /\ Len(heap[p].items) < MaxLen
    /\ op' = Op("Pipeline.append", p, "", value, 0)
    /\ ForkUnchanged
    /\ out' = NoOut
    /\ heap' = Collect([heap EXCEPT ![p].items = Append(@, value)], dict, out')

\* Pipeline.extend(iterable)
PipelineExtend(p, iterable) ==
    /\ Len(heap[p].items) + Len(iterable) <= MaxLen
    /\ op' = Op("Pipeline.extend", p, "", NoneV, Len(iterable))
    /\ ForkUnchanged
    /\ out' = NoOut
    /\ heap' = Collect([heap EXCEPT ![p].items = @ \o iterable], dict, out')

\* Pipeline.iterate, run to the end
PipelineIterate(h, p) == h[p].items

\* Pipe.iterate, run to the end
PipeIterate(h, p) == h[p].items

\* Pipeline.__len__
PipelineLen(h, p) == Len(h[p].items)

\* Pipe.__len__
PipeLen(h, p) == Len(h[p].items)

\* Pipeline.__contains__: value in self.list
PipelineContains(h, p, value) == value \in Range(h[p].items)

\* Pipe.__contains__: value in self.tuple
PipeContains(h, p, value) == value \in Range(h[p].items)

\* Pipeline.__getitem__(idx), idx counted from 0
PipelineGetItem(h, p, idx) ==
    IF idx >= Len(h[p].items) THEN Raise("IndexError")
    ELSE [NoOut EXCEPT !.val = h[p].items[idx + 1]]

\* Pipe.__getitem__(idx), idx counted from 0
PipeGetItem(h, p, idx) ==
    IF idx >= Len(h[p].items) THEN Raise("IndexError")
    ELSE [NoOut EXCEPT !.val = h[p].items[idx + 1]]

\* container.process(image) on a source image, for the caller's Pipe or
\* Pipeline
ContainerProcess(p, s) ==
    /\ op' = Op("process", p, "", NoneV, s)
    /\ ForkUnchanged
    /\ LET r == IF heap[p].kind = "Pipeline"
                THEN PipelineProcess(heap, heap[p].items, SrcImage(s))
                ELSE PipeProcess(heap, heap[p].items, SrcImage(s))
       IN  out' = IF r.err # "" THEN Raise(r.err)
                  ELSE [NoOut EXCEPT !.img = Flat(r.img)]
    /\ heap' = Collect(heap, dict, out')

\* len(container) for the caller's Pipe or Pipeline
ContainerLen(p) ==
    /\ op' = Op("len", p, "", NoneV, 0)
    /\ ForkUnchanged
    /\ out' = [NoOut EXCEPT !.val =
                  IntV(IF heap[p].kind = "Pipeline" THEN PipelineLen(heap, p)
                       ELSE PipeLen(heap, p))]
    /\ heap' = Collect(heap, dict, out')

\* value in container, for the caller's Pipe or Pipeline
ContainerContains(p, value) ==
    /\ op' = Op("contains", p, "", value, 0)
    /\ ForkUnchanged
    /\ out' = [NoOut EXCEPT !.val =
                  BoolV(IF heap[p].kind = "Pipeline"
                        THEN PipelineContains(heap, p, value)
                        ELSE PipeContains(heap, p, value))]
    /\ heap' = Collect(heap, dict, out')

\* container[idx], for the caller's Pipe or Pipeline
ContainerGetItem(p, idx) ==
    /\ op' = Op("getitem", p, "", NoneV, idx)
    /\ ForkUnchanged
    /\ out' = IF heap[p].kind = "Pipeline" THEN PipelineGetItem(heap, p, idx)
              ELSE PipeGetItem(heap, p, idx)
    /\ heap' = Collect(heap, dict, out')

\* list(container.iterate()), for the caller's Pipe or Pipeline
ContainerIterate(p) ==
    /\ op' = Op("iterate", p, "", NoneV, 0)
    /\ ForkUnchanged
    /\ out' = [NoOut EXCEPT !.seq = IF heap[p].kind = "Pipeline"
                                    THEN PipelineIterate(heap, p)
                                    ELSE PipeIterate(heap, p)]
    /\ heap' = Collect(heap, dict, out')

\* the values an assignment can be given
SetVals == ItemVals \cup {NOOpClass}

NextPipe ==
    \/ \E args \in SeqsUpTo(ItemVals, MaxLen) : PipelineInit(args)
    \/ \E args \in SeqsUpTo(ItemVals, MaxLen) : PipeInit(args)
    \/ \E p \in Pipelines(heap), i \in 0..MaxLen, v \in SetVals :
           PipelineSetItem(p, i, v)
    \/ \E p \in Pipelines(heap), i \in 0..MaxLen : PipelineDelItem(p, i)
    \/ \E p \in Pipelines(heap), v \in ItemVals : PipelineAppend(p, v)
    \/ \E p \in Pipelines(heap), it \in SeqsUpTo(ItemVals, MaxLen) :
           PipelineExtend(p, it)
    \/ \E p \in Pipelines(heap) \cup Pipes(heap), s \in Images :
           ContainerProcess(p, s)

SpecPipe == Init /\ [][NextPipe]_vars

\* ------------------------------------------------------------------- Fork
\* the outcome of a step inside a handler: the fork's dict, the heap, the
\* factory calls so far, the exception raised (if any), the value returned
\* and the results gathered
St(d, h, n, e, v, done) ==
    [dict |-> d, heap |-> h, calls |-> n, err |-> e, val |-> v, done |-> done]

\* default_factory(): a new instance of the class
Make(f) == Cell(f, <<>>)

\* a lookup that calls the factory twice and stores the second instance
GetItemTwice(d, h, n, f, k) ==
    IF k \in DOMAIN d THEN St(d, h, n, "", d[k], <<>>)
    ELSE LET h1 == New(h, k, Make(f)) IN
         St(Put(d, k, Obj(Alloc(h1, k))), New(h1, k, Make(f)), n + 2, "",
            Obj(Alloc(h1, k)), <<>>)

\* a lookup that builds the default and does not store it
GetItemMut(d, h, n, f, k) ==
    IF k \in DOMAIN d THEN St(d, h, n, "", d[k], <<>>)
    ELSE St(d, New(h, k, Make(f)), n + 1, "", Obj(Alloc(h, k)), <<>>)

\* Fork.__getitem__(idx): self.dict[idx] of a defaultdict
GetItem(d, h, n, f, k) ==
    IF k \in DOMAIN d THEN St(d, h, n, "", d[k], <<>>)
    ELSE St(Put(d, k, Obj(Alloc(h, k))), New(h, k, Make(f)), n + 1, "",
            Obj(Alloc(h, k)), <<>>)

\* Fork.__setitem__(idx, value)
SetItem(d, h, k, value) ==
    IF IsSentinel(value)
    THEN [dict |-> Put(d, k, Obj(Alloc(h, k))),
          heap |-> New(h, k, Cell("NOOp", <<>>))]
    ELSE [dict |-> Put(d, k, value), heap |-> h]

\* a length that counts only the bands holding a processor
ForkLenMut(d) == Cardinality({k \in DOMAIN d : ~IsSentinel(d[k])})

\* Fork.__len__: len(self.dict)
ForkLen(d) == Cardinality(DOMAIN d)

\* a membership test over the stored values
ForkContainsMut(d, value) == \E k \in DOMAIN d : d[k] = value

\* Fork.__contains__: value in self.dict
ForkContains(d, value) == value.t = "str" /\ value.s \in DOMAIN d

\* a get that ignores the default it is given
ForkGetMut(d, k, default_value) == IF k \in DOMAIN d THEN d[k] ELSE NoneV

\* Fork.get(idx, default_value)
ForkGet(d, k, default_value) == IF k \in DOMAIN d THEN d[k] ELSE default_value

\* Fork.update(**kwargs): self.dict.update(kwargs)
DictUpdate(d, kw) == kw @@ d

\* --------------------------------------------------------------- BandFork
\* the class attribute mode_t
ClassMode(c) == IF c = "OverprintFork" THEN "CMYK" ELSE "RGB"

\* a set_mode_t that stores nothing
BandFork_set_mode_t_Mut(cur, value) == [err |-> "", mode |-> cur]

\* BandFork.set_mode_t(value)
BandFork_set_mode_t(cur, value) == [err |-> "", mode |-> value]

\* OverprintFork.set_mode_t(value)
OverprintFork_set_mode_t(cur, value) ==
    IF value # "CMYK" THEN [err |-> "AttributeError", mode |-> cur]
    ELSE [err |-> "", mode |-> cur]

\* a mode setter that lets every mode through
ModeSetterMut(c, cur, value) ==
    LET r == IF value.t = "str" THEN for_string(value.m)
             ELSE [err |-> "", t |-> value.t, m |-> value.m]
    IN  CASE r.err # "" -> [err |-> r.err, mode |-> cur]
          [] r.t = "mode" -> BandFork_set_mode_t(cur, r.m)
          [] OTHER -> [err |-> "TypeError", mode |-> cur]

\* BandFork.mode setter; value is a Mode, a string or something else
ModeSetter(c, cur, value) ==
    LET r == IF value.t = "str" THEN for_string(value.m)
             ELSE [err |-> "", t |-> value.t, m |-> value.m]
    IN  CASE r.err # "" -> [err |-> r.err, mode |-> cur]
          [] r.t = "mode" ->
               IF r.m # cur
               THEN IF c = "OverprintFork"
                    THEN OverprintFork_set_mode_t(cur, r.m)
                    ELSE BandFork_set_mode_t(cur, r.m)
               ELSE [err |-> "", mode |-> cur]
          [] OTHER -> [err |-> "TypeError", mode |-> cur]

\* band labels that do not follow the mode
band_labels_Mut(m) == Bands("RGB")

\* BandFork.band_labels
band_labels(m) == Bands(m)

RECURSIVE IterateMut(_, _, _, _)
RECURSIVE Iterate(_, _, _, _)
\* an iteration that does not keep the defaults it makes
IterateMut(st, f, labels, i) ==
    IF i > Len(labels) THEN st
    ELSE LET g == GetItemMut(st.dict, st.heap, st.calls, f, labels[i]) IN
         IterateMut(St(g.dict, g.heap, g.calls, "", NoneV, Append(st.done, g.val)),
                    f, labels, i + 1)

\* BandFork.iterate, run to the end from label i
Iterate(st, f, labels, i) ==
    IF i > Len(labels) THEN st
    ELSE LET g == GetItem(st.dict, st.heap, st.calls, f, labels[i]) IN
         Iterate(St(g.dict, g.heap, g.calls, "", NoneV, Append(st.done, g.val)),
                 f, labels, i + 1)

\* BandFork.split(image): the bands of the image converted to the mode
BandSplit(m, s) ==
    [i \in 1..Len(Bands(m)) |->
        [src |-> s, how |-> m, band |-> Bands(m)[i], ops |-> <<>>]]

\* a split that skips gray-component replacement
OverprintSplitMut(s) == BandSplit("CMYK", s)

\* OverprintFork.split(image): the CMYK bands after gray-component replacement
OverprintSplit(s) ==
    [i \in 1..Len(Bands("CMYK")) |->
        [src |-> s, how |-> "GCR", band |-> Bands("CMYK")[i], ops |-> <<>>]]

\* BandFork.compose(*bands)
BandCompose(m, bands) == [how |-> "merge", mode |-> m, parts |-> bands]

\* OverprintFork.compose(*bands)
OverprintCompose(bands) == [how |-> "multiply", mode |-> "", parts |-> bands]

RECURSIVE ProcessBandsSkip(_, _, _, _, _)
RECURSIVE ProcessBandsMut(_, _, _, _, _)
RECURSIVE ProcessBands(_, _, _, _, _)
\* a band loop that leaves out the band whose processor fails and goes on
ProcessBandsSkip(st, f, labels, bands, i) ==
    IF i > Len(labels) THEN st
    ELSE LET g == GetItem(st.dict, st.heap, st.calls, f, labels[i]) IN
         IF i > Len(bands)
         THEN St(g.dict, g.heap, g.calls, "", NoneV, st.done)
         ELSE LET r == ProcessVal(g.heap, g.val, bands[i]) IN
              ProcessBandsSkip(St(g.dict, g.heap, g.calls, "", NoneV,
                                  IF r.err # "" THEN st.done
                                  ELSE Append(st.done, r.img)),
                               f, labels, bands, i + 1)

\* a band loop that pairs the processors with the bands in reverse
ProcessBandsMut(st, f, labels, bands, i) ==
    IF i > Len(labels) THEN st
    ELSE LET g == GetItem(st.dict, st.heap, st.calls, f, labels[i]) IN
         IF i > Len(bands)
         THEN St(g.dict, g.heap, g.calls, "", NoneV, st.done)
         ELSE LET r == ProcessVal(g.heap, g.val, bands[Len(bands) - i + 1]) IN
              IF r.err # ""
              THEN St(g.dict, g.heap, g.calls, r.err, NoneV, st.done)
              ELSE ProcessBandsMut(St(g.dict, g.heap, g.calls, "", NoneV,
                                      Append(st.done, r.img)),
                                   f, labels, bands, i + 1)

\* the loop of BandFork.process over zip(self.iterate(), self.split(image)),
\* from position i
ProcessBands(st, f, labels, bands, i) ==
    IF i > Len(labels) THEN st
    ELSE LET g == GetItem(st.dict, st.heap, st.calls, f, labels[i]) IN
         IF i > Len(bands)
         THEN St(g.dict, g.heap, g.calls, "", NoneV, st.done)
         ELSE LET r == ProcessVal(g.heap, g.val, bands[i]) IN
              IF r.err # ""
              THEN St(g.dict, g.heap, g.calls, r.err, NoneV, st.done)
              ELSE ProcessBands(St(g.dict, g.heap, g.calls, "", NoneV,
                                   Append(st.done, r.img)),
                                f, labels, bands, i + 1)

\* ---------------------------------------------------------- OverprintFork
RECURSIVE apply_CMYK_inks_Mut(_, _, _, _)
RECURSIVE apply_CMYK_inks(_, _, _, _)

\* an ink augmentation that wraps every band anew
apply_CMYK_inks_Mut(st, f, labels, i) ==
    IF i > Len(labels) \/ i > Len(inks) \/ st.err # "" THEN st
    ELSE LET g == GetItem(st.dict, st.heap, st.calls, f, labels[i])
             h2 == New(g.heap, labels[i], Cell("Pipeline", <<g.val>>))
             s2 == SetItem(g.dict, h2, labels[i],
                           Obj(Alloc(g.heap, labels[i])))
         IN  apply_CMYK_inks_Mut(St(s2.dict, s2.heap, g.calls, "", NoneV, <<>>),
                                 f, labels, i + 1)

\* OverprintFork.apply_CMYK_inks, from position i of
\* zip(self.band_labels, type(self).inks)
apply_CMYK_inks(st, f, labels, i) ==
    IF i > Len(labels) \/ i > Len(inks) \/ st.err # "" THEN st
    ELSE LET g == GetItem(st.dict, st.heap, st.calls, f, labels[i])
             processor == g.val
             ink == inks[i]
         IN  IF HasAppend(g.heap, processor)
             THEN LET its == g.heap[processor.n].items IN
                  IF its = <<>>
                  THEN St(g.dict, g.heap, g.calls, "IndexError", NoneV, <<>>)
                  ELSE IF its[Len(its)] # ink
                  THEN LET h2 == [g.heap EXCEPT ![processor.n].items =
                                      Append(@, ink)]
                           s2 == SetItem(g.dict, h2, labels[i], processor)
                       IN  apply_CMYK_inks(
                               St(s2.dict, s2.heap, g.calls, "", NoneV, <<>>),
                               f, labels, i + 1)
                  ELSE apply_CMYK_inks(g, f, labels, i + 1)
             ELSE LET h2 == New(g.heap, labels[i],
                                Cell("Pipeline", <<processor, ink>>))
                      s2 == SetItem(g.dict, h2, labels[i],
                                    Obj(Alloc(g.heap, labels[i])))
                  IN  apply_CMYK_inks(
                          St(s2.dict, s2.heap, g.calls, "", NoneV, <<>>),
                          f, labels, i + 1)

\* ---------------------------------------------------------- fork actions
\* the objects the caller hands to a fork: its first processor and the
\* container it built
UserObjs(h) == {Obj(i) : i \in {j \in {1, Slot} : h[j].kind # "free"}}

\* what a caller assigns to a band
BandVals(h) == {NoneV, NOOpClass} \cup UserObjs(h)

\* what a caller passes for a band in keyword arguments
KwVals(h) == {NoneV} \cup UserObjs(h)

\* the containers a caller builds for a band: empty, one step, or two steps
\* the last of which is an ink
BandArgs == {<<>>, <<Obj(1)>>, <<Obj(1), InkV(CYAN)>>}

\* keyword arguments: at most MaxKw of the keys, each with a value
KwArgs(keys, vals) ==
    UNION {[S -> vals] : S \in {T \in SUBSET keys : Cardinality(T) <= MaxKw}}

NoMode == [t |-> "absent", m |-> ""]
ModeArgs ==
    {[t |-> "mode", m |-> x] : x \in Modes}
        \cup {[t |-> "str", m |-> x] : x \in Modes \cup {"bogus"}}
        \cup {[t |-> "other", m |-> ""]}

FactoryArgs == {"None", "NOOp", "Leaf", "Pipeline", "NonCallable"}

\* a factory check that lets everything through
CheckFactoryMut(fa) == [err |-> "", f |-> IF fa = "None" THEN "NOOp" ELSE fa]

\* the head of Fork.__init__: None and NOOp make NOOp the default factory,
\* a value that is not callable is refused
CheckFactory(fa) ==
    IF fa \in {"None", "NOOp"} THEN [err |-> "", f |-> "NOOp"]
    ELSE IF fa = "NonCallable" THEN [err |-> "AttributeError", f |-> fa]
    ELSE [err |-> "", f |-> fa]

\* c(default_factory, mode=..., **kwargs) for c a BandFork or an
\* OverprintFork: BandFork.__init__, Fork.__init__, OverprintFork.__init__
Construct(c, fa, mk, kw) ==
    /\ cls = "none"
    /\ LET m0 == IF mk.t = "absent" THEN [err |-> "", mode |-> ClassMode(c)]
                 ELSE ModeSetter(c, ClassMode(c), mk)
           f == CheckFactory(fa).f
           e1 == IF m0.err # "" THEN m0.err ELSE CheckFactory(fa).err
           st0 == St(kw, heap, 0, e1, NoneV, <<>>)
           st1 == IF e1 = "" /\ c = "OverprintFork" /\ fa # "None"
                  THEN apply_CMYK_inks(st0, f, band_labels(m0.mode), 1)
                  ELSE st0
       IN  /\ IF st1.err = ""
              THEN /\ cls' = c
                   /\ factory' = f
                   /\ mode_t' = m0.mode
                   /\ dict' = st1.dict
                   /\ out' = [NoOut EXCEPT !.calls = st1.calls]
              ELSE /\ cls' = "none"
                   /\ factory' = "NOOp"
                   /\ mode_t' = "RGB"
                   /\ dict' = EmptyDict
                   /\ out' = Raise(st1.err)
           /\ Capped(st1.heap)
           /\ heap' = Collect(st1.heap, dict', out')
    /\ op' = Op("construct", 0, fa, NoneV, Cardinality(DOMAIN kw))

\* fork[k]
ForkGetItem(k) ==
    /\ cls # "none"
    /\ LET g == GetItem(dict, heap, 0, factory, k) IN
       /\ dict' = g.dict
       /\ out' = [NoOut EXCEPT !.val = g.val, !.calls = g.calls]
       /\ heap' = Collect(g.heap, dict', out')
    /\ op' = Op("getitem", 0, k, NoneV, 0)
    /\ UNCHANGED <<cls, factory, mode_t>>

\* fork[k] = value
ForkSetItem(k, value) ==
    /\ cls # "none"
    /\ LET r == SetItem(dict, heap, k, value) IN
       /\ dict' = r.dict
       /\ out' = NoOut
       /\ heap' = Collect(r.heap, dict', out')
    /\ op' = Op("setitem", 0, k, value, 0)
    /\ UNCHANGED <<cls, factory, mode_t>>

\* del fork[k]: Fork.__delitem__
ForkDelItem(k) ==
    /\ cls # "none"
    /\ IF k \in DOMAIN dict
       THEN /\ dict' = Drop(dict, k)
            /\ out' = NoOut
       ELSE /\ dict' = dict
            /\ out' = Raise("KeyError")
    /\ heap' = Collect(heap, dict', out')
    /\ op' = Op("delitem", 0, k, NoneV, 0)
    /\ UNCHANGED <<cls, factory, mode_t>>

\* fork.update(**kw): Fork.update, and OverprintFork.update on top of it
ForkUpdate(kw) ==
    /\ cls # "none"
    /\ LET st0 == St(DictUpdate(dict, kw), heap, 0, "", NoneV, <<>>)
           st1 == IF cls = "OverprintFork"
                  THEN apply_CMYK_inks(st0, factory, band_labels(mode_t), 1)
                  ELSE st0
       IN  /\ dict' = st1.dict
           /\ out' = [(IF st1.err # "" THEN Raise(st1.err) ELSE NoOut)
                         EXCEPT !.calls = st1.calls]
           /\ Capped(st1.heap)
           /\ heap' = Collect(st1.heap, dict', out')
    /\ op' = Op("update", 0, "", NoneV, Cardinality(DOMAIN kw))
    /\ UNCHANGED <<cls, factory, mode_t>>

\* fork.apply_CMYK_inks()
ApplyInks ==
    /\ cls = "OverprintFork"
    /\ LET st1 == apply_CMYK_inks(St(dict, heap, 0, "", NoneV, <<>>),
                                  factory, band_labels(mode_t), 1)
       IN  /\ dict' = st1.dict
           /\ out' = [(IF st1.err # "" THEN Raise(st1.err) ELSE NoOut)
                         EXCEPT !.calls = st1.calls]
           /\ Capped(st1.heap)
           /\ heap' = Collect(st1.heap, dict', out')
    /\ op' = Op("apply_CMYK_inks", 0, "", NoneV, 0)
    /\ UNCHANGED <<cls, factory, mode_t>>

\* a mode change that drops the bands the new mode does not have
DictAfterModeMut(d, m) ==
    LET keep == DOMAIN d \cap Range(Bands(m)) IN
    IF keep = DOMAIN d THEN d ELSE Drop(d, CHOOSE k \in DOMAIN d : k \notin keep)

\* the fork's dict once the mode setter has run: the setter and set_mode_t
\* assign self.mode_t and nothing else
DictAfterMode(d, m) == d

\* fork.mode = value
SetMode(value) ==
    /\ cls # "none"
    /\ LET r == ModeSetter(cls, mode_t, value) IN
       /\ mode_t' = r.mode
       /\ out' = IF r.err # "" THEN Raise(r.err) ELSE NoOut
       /\ dict' = IF r.err # "" THEN dict ELSE DictAfterMode(dict, r.mode)
    /\ heap' = Collect(heap, dict', out')
    /\ op' = Op("mode", 0, value.m, [NoneV EXCEPT !.s = value.t], 0)
    /\ UNCHANGED <<cls, factory>>

\* list(fork.iterate())
ForkIterate ==
    /\ cls # "none"
    /\ LET r == Iterate(St(dict, heap, 0, "", NoneV, <<>>), factory,
                        band_labels(mode_t), 1)
       IN  /\ dict' = r.dict
           /\ out' = [NoOut EXCEPT !.seq = r.done, !.calls = r.calls]
           /\ heap' = Collect(r.heap, dict', out')
    /\ op' = Op("iterate", 0, "", NoneV, 0)
    /\ UNCHANGED <<cls, factory, mode_t>>

\* fork.process(image) on a source image: BandFork.process
ForkProcess(s) ==
    /\ cls # "none"
    /\ LET bands == IF cls = "OverprintFork" THEN OverprintSplit(s)
                    ELSE BandSplit(mode_t, s)
           r == ProcessBands(St(dict, heap, 0, "", NoneV, <<>>), factory,
                             band_labels(mode_t), bands, 1)
       IN  /\ dict' = r.dict
           /\ out' = IF r.err # "" THEN [Raise(r.err) EXCEPT !.calls = r.calls]
                     ELSE [NoOut EXCEPT !.calls = r.calls, !.img =
                              IF cls = "OverprintFork"
                              THEN OverprintCompose(r.done)
                              ELSE BandCompose(mode_t, r.done)]
           /\ heap' = Collect(r.heap, dict', out')
    /\ op' = Op("process", 0, "", NoneV, s)
    /\ UNCHANGED <<cls, factory, mode_t>>

\* what an overriding split(image) returns when it yields n bands: the
\* first n bands of the class's own split, then bands of its own
SplitOverride(bands, s, n) ==
    IF n <= Len(bands) THEN SubSeq(bands, 1, n)
    ELSE bands \o [i \in 1..(n - Len(bands)) |->
                      [src |-> s, how |-> "override", band |-> "X", ops |-> <<>>]]

\* fork.process(image) on a fork of a subclass whose split(image) yields n
\* bands: BandFork.process over an overridden split
ForkProcessSplit(s, n) ==
    /\ cls # "none"
    /\ LET bands == SplitOverride(IF cls = "OverprintFork" THEN OverprintSplit(s)
                                  ELSE BandSplit(mode_t, s), s, n)
           r == ProcessBands(St(dict, heap, 0, "", NoneV, <<>>), factory,
                             band_labels(mode_t), bands, 1)
       IN  /\ dict' = r.dict
           /\ out' = IF r.err # "" THEN [Raise(r.err) EXCEPT !.calls = r.calls]
                     ELSE [NoOut EXCEPT !.calls = r.calls, !.img =
                              IF cls = "OverprintFork"
                              THEN OverprintCompose(r.done)
                              ELSE BandCompose(mode_t, r.done)]
           /\ heap' = Collect(r.heap, dict', out')
    /\ op' = Op("process_split", 0, "", IntV(n), s)
    /\ UNCHANGED <<cls, factory, mode_t>>

\* fork.get(k, default_value)
ForkGetOf(k, default_value) ==
    /\ cls # "none"
    /\ out' = [NoOut EXCEPT !.val = ForkGet(dict, k, default_value)]
    /\ heap' = Collect(heap, dict, out')
    /\ op' = Op("get", 0, k, default_value, 0)
    /\ ForkUnchanged

\* the optional operations of a container
OptionalOps == {"index", "get", "last", "append", "extend", "update"}

\* the optional operations a class defines itself
Defines(kind) ==
    CASE kind = "Pipe" -> {"index", "last"}
      [] kind = "Pipeline" -> {"index", "last", "append", "extend"}
      [] OTHER -> {"get", "update"}

\* an optional operation that does nothing
InheritedMut(name) == ""

\* Container.index / get / last and MutableContainer.append / extend /
\* update, as a class that does not define them inherits them
Inherited(name) == "NotImplementedError"

\* c.name(...) for an optional operation that the class of c (the fork when
\* c is 0, else the caller's Pipe or Pipeline) does not define
CallInherited(c, name) ==
    /\ IF c = 0 THEN cls # "none" /\ name \notin Defines(cls)
       ELSE /\ c \in Pipelines(heap) \cup Pipes(heap)
            /\ name \notin Defines(heap[c].kind)
            /\ heap[c].kind = "Pipe" => name \notin {"append", "extend", "update"}
    /\ out' = IF Inherited(name) # "" THEN Raise(Inherited(name)) ELSE NoOut
    /\ heap' = Collect(heap, dict, out')
    /\ op' = Op("inherited", c, name, NoneV, 0)
    /\ ForkUnchanged

\* len(fork)
ForkLenOf ==
    /\ cls # "none"
    /\ out' = [NoOut EXCEPT !.val = IntV(ForkLen(dict))]
    /\ heap' = Collect(heap, dict, out')
    /\ op' = Op("len", 0, "", NoneV, 0)
    /\ ForkUnchanged

\* value in fork
ForkContainsOf(value) ==
    /\ cls # "none"
    /\ out' = [NoOut EXCEPT !.val = BoolV(ForkContains(dict, value))]
    /\ heap' = Collect(heap, dict, out')
    /\ op' = Op("contains", 0, "", value, 0)
    /\ ForkUnchanged

\* the band labels a caller addresses directly
BandKeys == {"G"}
OverKeys == {"C", "M"}

\* what a caller asks a container about: a band label or one of its objects
QueryVals(h) == {StrV(k) : k \in BandKeys} \cup UserObjs(h)

NextBand ==
    \/ \E args \in BandArgs : PipelineInit(args)
    \/ \E args \in BandArgs : PipeInit(args)
    \/ \E fa \in FactoryArgs \ {"Pipeline"}, mk \in ModeArgs \cup {NoMode},
          kw \in KwArgs(BandKeys, KwVals(heap)) :
           Construct("BandFork", fa, mk, kw)
    \/ \E k \in BandKeys : ForkGetItem(k)
    \/ \E k \in BandKeys, v \in BandVals(heap) : ForkSetItem(k, v)
    \/ \E k \in BandKeys : ForkDelItem(k)
    \/ \E kw \in KwArgs(BandKeys, KwVals(heap)) : ForkUpdate(kw)
    \/ \E v \in ModeArgs : SetMode(v)
    \/ ForkIterate
    \/ \E s \in Images : ForkProcess(s)
    \/ ForkLenOf
    \/ \E v \in QueryVals(heap) : ForkContainsOf(v)
    \/ \E p \in Pipelines(heap) \cup Pipes(heap) : p = Slot /\ ContainerLen(p)
    \/ \E p \in Pipelines(heap) \cup Pipes(heap), v \in QueryVals(heap) :
           p = Slot /\ ContainerContains(p, v)
    \/ \E p \in Pipelines(heap) \cup Pipes(heap), i \in 0..MaxLen :
           p = Slot /\ ContainerGetItem(p, i)
    \/ \E p \in Pipelines(heap) \cup Pipes(heap) : p = Slot /\ ContainerIterate(p)

NextOver ==
    \/ \E args \in BandArgs : PipelineInit(args)
    \/ \E fa \in FactoryArgs, kw \in KwArgs(OverKeys, UserObjs(heap)) :
           Construct("OverprintFork", fa, NoMode, kw)
    \/ \E k \in OverKeys, v \in UserObjs(heap) : ForkSetItem(k, v)
    \/ \E k \in OverKeys : ForkDelItem(k)
    \/ \E kw \in KwArgs(OverKeys, UserObjs(heap)) : ForkUpdate(kw)
    \/ ApplyInks
    \/ \E s \in Images : ForkProcess(s)

\* an overprint fork whose mode a caller tries to set
NextLock ==
    \/ \E fa \in FactoryArgs, mk \in ModeArgs \cup {NoMode} :
           Construct("OverprintFork", fa, mk, EmptyDict)
    \/ \E k \in OverKeys, v \in BandVals(heap) : ForkSetItem(k, v)
    \/ \E k \in OverKeys : ForkDelItem(k)
    \/ \E v \in ModeArgs : SetMode(v)

\* a fork of a subclass that overrides split
NextSplit ==
    \/ \E c \in {"BandFork", "OverprintFork"}, fa \in FactoryArgs :
           Construct(c, fa, NoMode, EmptyDict)
    \/ \E k \in {"G", "C"}, v \in UserObjs(heap) : ForkSetItem(k, v)
    \/ \E v \in ModeArgs : SetMode(v)
    \/ \E s \in Images, n \in 1..MaxBands : ForkProcessSplit(s, n)

\* the processors whose process raises, one for each of two exceptions
FailingVals == {Failing("ValueError"), Failing("OSError")}

\* the steps of the container the caller builds: a processor that works or
\* one that fails
FailItems == FailingVals \cup {Obj(1)}

\* the bands a caller assigns in a fork of class c
FailKeys(c) == IF c = "OverprintFork" THEN {"M", "Y"} ELSE {"G", "B"}

\* containers and forks holding processors that fail
NextFail ==
    \/ \E args \in SeqsUpTo(FailItems, MaxLen) : PipelineInit(args)
    \/ \E args \in SeqsUpTo(FailItems, MaxLen) : PipeInit(args)
    \/ \E c \in {"BandFork", "OverprintFork"}, fa \in {"None", "Leaf"} :
           Construct(c, fa, NoMode, EmptyDict)
    \/ \E k \in FailKeys(cls), v \in FailingVals \cup (UserObjs(heap) \ Leaves) :
           ForkSetItem(k, v)
    \/ \E p \in Pipelines(heap) \cup Pipes(heap), s \in Images :
           p = Slot /\ ContainerProcess(p, s)
    \/ \E s \in Images : ForkProcess(s)

\* lookups with a fallback and operations a class leaves to its base
NextOps ==
    \/ \E args \in BandArgs : PipelineInit(args)
    \/ \E args \in BandArgs : PipeInit(args)
    \/ \E c \in {"BandFork", "OverprintFork"}, fa \in {"None", "Leaf"},
          kw \in KwArgs(BandKeys, KwVals(heap)) : Construct(c, fa, NoMode, kw)
    \/ \E k \in BandKeys, v \in BandVals(heap) : ForkSetItem(k, v)
    \/ \E k \in BandKeys : ForkDelItem(k)
    \/ \E k \in BandKeys : ForkGetItem(k)
    \/ \E k \in BandKeys, dv \in KwVals(heap) : ForkGetOf(k, dv)
    \/ \E c \in {0, Slot}, name \in OptionalOps : CallInherited(c, name)

SpecBand == Init /\ [][NextBand]_vars
SpecOps == Init /\ [][NextOps]_vars
SpecFail == Init /\ [][NextFail]_vars
SpecSplit == Init /\ [][NextSplit]_vars
SpecOver == Init /\ [][NextOver]_vars
SpecLock == Init /\ [][NextLock]_vars

\* ================================================================= claims
\* the steps of a sequence that leave a mark on the image they process:
\* every item but a no-op instance
Marks(h, items) == SelectSeq(items, LAMBDA v : ~IsKind(h, v, "NOOp"))

\* a value that is a processor: an ink, or a leaf or no-op instance
IsProcessor(h, v) ==
    v.t = "ink" \/ IsKind(h, v, "Leaf") \/ IsKind(h, v, "NOOp")

\* the last operation ran on the caller's Pipe or Pipeline
OnContainer(name) == op.name = name /\ op.c # 0

\* the last operation ran on the fork
OnFork(name) == op.name = name /\ op.c = 0 /\ cls # "none"

\* C1: a Pipe or Pipeline holding processors [p1..pn] processes an image by
\* applying p1, ..., pn in that order, each once, each to the result of the
\* one before; an empty one returns the image.
C1_ProcessFold ==
    (/\ OnContainer("process")
     /\ \A i \in 1..Len(heap[op.c].items) : IsProcessor(heap, heap[op.c].items[i]))
    => /\ out.err = ""
       /\ out.img = Flat([SrcImage(op.i) EXCEPT
                             !.ops = Marks(heap, heap[op.c].items)])

C1_Witness ==
    /\ OnContainer("process")
    /\ out.err = ""
    /\ out.img.how = "flat"
    /\ Len(out.img.parts[1].ops) = 2
    /\ out.img.parts[1].ops[1] # out.img.parts[1].ops[2]

\* C2: the first keyed access to a band label missing from the fork calls
\* the default factory once and stores the new instance under the label;
\* an access to a stored label returns the stored value, calls nothing and
\* changes nothing; and nothing but an assignment, a deletion, an update or
\* a construction changes what is stored under a label.
C2_Vivify ==
    [][/\ (op'.name = "getitem" /\ op'.c = 0) =>
             IF op'.k \in DOMAIN dict
             THEN /\ out'.val = dict[op'.k]
                  /\ out'.calls = 0
                  /\ dict' = dict
             ELSE /\ out'.calls = 1
                  /\ dict' = Put(dict, op'.k, out'.val)
                  /\ IsKind(heap', out'.val, factory)
                  /\ ~IsKind(heap, out'.val, heap'[out'.val.n].kind)
       /\ (op'.name \notin {"setitem", "delitem", "update", "construct"}) =>
             \A k \in DOMAIN dict : k \in DOMAIN dict' /\ dict'[k] = dict[k]
      ]_vars

C2_Witness ==
    /\ OnFork("getitem")
    /\ out.calls = 0
    /\ factory = "Leaf"
    /\ IsKind(heap, out.val, "Leaf")
    /\ out.val.n > Slot

\* the four band labels of the overprint fork
CMYKLabels == Bands("CMYK")

\* band i of the overprint fork holds a pipeline that ends with the band's
\* ink, and the ink occurs in it once
InkOnceAtTail(i) ==
    /\ CMYKLabels[i] \in DOMAIN dict
    /\ IsKind(heap, dict[CMYKLabels[i]], "Pipeline")
    /\ LET its == heap[dict[CMYKLabels[i]].n].items IN
       /\ its # <<>>
       /\ its[Len(its)] = inks[i]
       /\ Cardinality({j \in 1..Len(its) : its[j] = inks[i]}) = 1

\* C3: after apply_CMYK_inks, however often it has run, each of the four
\* bands holds a pipeline with its ink once, at the tail.
C3_InkAugmentation ==
    OnFork("apply_CMYK_inks") =>
        /\ out.err = ""
        /\ \A i \in 1..4 : InkOnceAtTail(i)

\* what a mode assignment resolves to: a mode, or nothing
Resolved(t, m) == IF t \in {"mode", "str"} /\ m \in Modes THEN m ELSE ""

\* C4: on an overprint fork, assigning a mode that resolves to anything but
\* CMYK raises the mode-locked error (AttributeError), assigning CMYK is
\* accepted, and assigning a value that is no mode and names none raises
\* TypeError; in every case the mode and the mapping stay as they were.
C4_ModeLock ==
    [][(op'.name = "mode" /\ cls = "OverprintFork") =>
          /\ mode_t' = mode_t
          /\ mode_t' = "CMYK"
          /\ dict' = dict
          /\ out'.err = CASE Resolved(op'.v.s, op'.k) = "CMYK" -> ""
                          [] Resolved(op'.v.s, op'.k) = "" -> "TypeError"
                          [] OTHER -> "AttributeError"
      ]_vars

C4_Witness ==
    /\ OnFork("mode")
    /\ cls = "OverprintFork"
    /\ op.k = "RGB"
    /\ out.err = "AttributeError"
    /\ dict # EmptyDict

\* C4 as stated: every value other than CMYK raises the mode-locked error.
C4_AsStated ==
    (OnFork("mode") /\ cls = "OverprintFork"
        /\ Resolved(op.v.s, op.k) # "CMYK")
    => out.err = "AttributeError" /\ mode_t = "CMYK"

\* C5: right after an overprint fork is constructed with a default factory
\* (not None) and no band keywords, each band C, M, Y, K holds a pipeline of
\* two steps: a new instance of the factory, then the band's ink.
C5_InksAfterConstruction ==
    (OnFork("construct") /\ cls = "OverprintFork" /\ op.k # "None" /\ op.i = 0)
    => /\ out.calls = 4
       /\ \A i \in 1..4 :
            /\ InkOnceAtTail(i)
            /\ LET its == heap[dict[CMYKLabels[i]].n].items IN
               /\ Len(its) = 2
               /\ IsKind(heap, its[1], factory)
               /\ \A j \in 1..4 : j # i =>
                    its[1] # heap[dict[CMYKLabels[j]].n].items[1]

C5_Witness ==
    /\ OnFork("construct")
    /\ cls = "OverprintFork"
    /\ op.k = "Leaf"
    /\ op.i = 0
    /\ out.calls = 4
    /\ DOMAIN dict = {"C", "M", "Y", "K"}

\* C5 as stated: in every state of an overprint fork each band's chain ends
\* with the band's ink, once.
C5_AsStated == cls = "OverprintFork" => \A i \in 1..4 : InkOnceAtTail(i)

\* the band of a source image a band fork in mode m hands to its i-th
\* processor
BandOf(m, s, i) == [src |-> s, how |-> m, band |-> Bands(m)[i], ops |-> <<>>]

\* C6: a band fork in mode M returns the merge, in band order, of each band
\* of the image processed by the processor stored under the band's label,
\* or by a new instance of the default factory (stored from then on) when
\* the label was missing.
C6_BandProcess ==
    [][(op'.name = "process" /\ op'.c = 0 /\ cls = "BandFork"
           /\ out'.err = "") =>
          /\ out'.img.how = "merge"
          /\ out'.img.mode = mode_t
          /\ Len(out'.img.parts) = Len(Bands(mode_t))
          /\ \A i \in 1..Len(Bands(mode_t)) :
               LET b == Bands(mode_t)[i] IN
               /\ b \in DOMAIN dict'
               /\ IF b \in DOMAIN dict THEN dict'[b] = dict[b]
                  ELSE /\ IsKind(heap', dict'[b], factory)
                       /\ ~IsKind(heap, dict'[b], factory)
               /\ out'.img.parts[i] =
                    ProcessVal(heap', dict'[b], BandOf(mode_t, op'.i, i)).img
      ]_vars

C6_Witness ==
    /\ OnFork("process")
    /\ cls = "BandFork"
    /\ factory = "NOOp"
    /\ mode_t = "RGB"
    /\ dict["G"] = Obj(1)
    /\ out.err = ""
    /\ out.img.how = "merge"
    /\ out.img.parts = <<BandOf("RGB", op.i, 1),
                         [BandOf("RGB", op.i, 2) EXCEPT !.ops = <<Obj(1)>>],
                         BandOf("RGB", op.i, 3)>>

\* C7: process on an overprint fork just constructed with a default factory
\* F and no band keywords returns the multiply-blend, in C, M, Y, K order, of
\* the bands of the gray-component-replaced image, each processed by the
\* band's own instance of F and then by the band's ink.
C7_OverprintProcess ==
    [][(/\ op.name = "construct" /\ cls = "OverprintFork"
        /\ op.k # "None" /\ op.i = 0
        /\ op'.name = "process" /\ op'.c = 0) =>
          /\ out'.err = ""
          /\ out'.calls = 0
          /\ out'.img.how = "multiply"
          /\ Len(out'.img.parts) = 4
          /\ \A i \in 1..4 :
               LET its == heap[dict[CMYKLabels[i]].n].items IN
               out'.img.parts[i] =
                   [src |-> op'.i, how |-> "GCR", band |-> CMYKLabels[i],
                    ops |-> Marks(heap, <<its[1], inks[i]>>)]
      ]_vars

C7_Witness ==
    /\ OnFork("process")
    /\ cls = "OverprintFork"
    /\ factory = "Leaf"
    /\ out.err = ""
    /\ out.calls = 0
    /\ out.img.how = "multiply"
    /\ \A i \in 1..4 :
         /\ Len(out.img.parts[i].ops) = 2
         /\ IsKind(heap, out.img.parts[i].ops[1], "Leaf")
         /\ out.img.parts[i].ops[1].n > Slot
         /\ out.img.parts[i].ops[2] = inks[i]
         /\ out.img.parts[i].how = "GCR"

\* C8: no fork and no pipeline holds None or the NOOp class as a value.
C8_NoSentinelStored ==
    /\ \A k \in DOMAIN dict : ~IsSentinel(dict[k])
    /\ \A p \in Pipelines(heap) :
         \A i \in 1..Len(heap[p].items) : ~IsSentinel(heap[p].items[i])

\* C9: a Pipe or Pipeline contains a value exactly when the value is one of
\* its items; a fork contains a value exactly when the value is a band label
\* it has stored something under.
C9_Contains ==
    /\ OnContainer("contains") =>
         out.val = BoolV(\E i \in 1..Len(heap[op.c].items) :
                             heap[op.c].items[i] = op.v)
    /\ OnFork("contains") =>
         out.val = BoolV(op.v.t = "str" /\ op.v.s \in DOMAIN dict)

C9_Witness ==
    /\ OnFork("contains")
    /\ op.v = StrV("G")
    /\ "G" \in DOMAIN dict
    /\ dict["G"] = Obj(1)
    /\ out.val = BoolV(TRUE)

\* C9 as stated: a fork contains a value exactly when the value is one of
\* the processors it holds.
C9_AsStated ==
    OnFork("contains") => out.val = BoolV(\E k \in DOMAIN dict : dict[k] = op.v)

\* C10: the length of a Pipe or Pipeline is the number of its items and
\* lookup by position returns the item iterated at that position; the
\* length of a fork is the number of band labels it has stored, and once
\* iterate() has run every value it produced is the one stored under its
\* band label, so the length is at least the number iterated.
C10_LenLookup ==
    /\ OnContainer("len") => out.val = IntV(Len(PipelineIterate(heap, op.c)))
    /\ OnContainer("getitem") =>
         IF op.i < Len(PipelineIterate(heap, op.c))
         THEN out.err = "" /\ out.val = PipelineIterate(heap, op.c)[op.i + 1]
         ELSE out.err = "IndexError"
    /\ OnFork("len") => out.val = IntV(Cardinality(DOMAIN dict))
    /\ OnFork("iterate") =>
         /\ Len(out.seq) = Len(Bands(mode_t))
         /\ \A i \in 1..Len(out.seq) :
              /\ Bands(mode_t)[i] \in DOMAIN dict
              /\ out.seq[i] = dict[Bands(mode_t)[i]]
         /\ Cardinality(DOMAIN dict) >= Len(out.seq)

C10_Witness ==
    /\ OnFork("len")
    /\ cls = "BandFork"
    /\ out.val.n > Len(Bands(mode_t))

\* C10 as stated: the length of a band fork is the number of processors
\* iterate() produces.
C10_AsStated ==
    (OnFork("len") /\ cls = "BandFork") => out.val = IntV(Len(Bands(mode_t)))

\* C11: process raises an error whenever split returns a number of bands
\* other than the number of band labels of the active mode.
C11_BandMismatch ==
    (OnFork("process_split") /\ op.v.n # Len(Bands(mode_t))) => out.err # ""

\* C12: assigning a band fork's mode a mode value, or a name that resolves
\* to one, makes that the current mode; assigning anything else raises
\* TypeError and leaves the mode as it was; the mapping is untouched either
\* way.
C12_ModeSetter ==
    [][(op'.name = "mode" /\ cls = "BandFork") =>
          /\ dict' = dict
          /\ IF Resolved(op'.v.s, op'.k) # ""
             THEN out'.err = "" /\ mode_t' = Resolved(op'.v.s, op'.k)
             ELSE out'.err = "TypeError" /\ mode_t' = mode_t
      ]_vars

C12_Witness ==
    /\ OnFork("mode")
    /\ cls = "BandFork"
    /\ op.v.s = "str"
    /\ op.k = "CMYK"
    /\ mode_t = "CMYK"
    /\ out.err = ""
    /\ dict # EmptyDict

\* C13: constructing a fork with a default factory that is not callable
\* raises at once (AttributeError) and leaves no fork; None and the NOOp
\* class are accepted and make NOOp the default factory.
C13_FactoryCheck ==
    /\ (op.name = "construct" /\ op.k = "NonCallable") =>
          out.err = "AttributeError" /\ cls = "none" /\ dict = EmptyDict
    /\ (op.name = "construct" /\ op.k \in {"None", "NOOp"}) =>
          out.err = "" /\ cls # "none" /\ factory = "NOOp"

C13_Witness ==
    /\ op.name = "construct"
    /\ op.k = "NonCallable"
    /\ out.err = "AttributeError"
    /\ cls = "none"

\* C14: an optional operation called on a container whose class does not
\* define it (append, extend, index or last on a fork; update or get on a
\* Pipeline; get on a Pipe) raises NotImplementedError and changes neither
\* the fork's mapping nor the container's items.
C14_Unsupported ==
    [][op'.name = "inherited" =>
          /\ out'.err = "NotImplementedError"
          /\ dict' = dict
          /\ mode_t' = mode_t
          /\ op'.c # 0 => heap'[op'.c] = heap[op'.c]
      ]_vars

C14_Witness ==
    /\ op.name = "inherited"
    /\ op.c = 0
    /\ op.k = "append"
    /\ cls = "OverprintFork"
    /\ out.err = "NotImplementedError"
    /\ dict # EmptyDict

\* C17: fork.get(k, d) returns d when nothing is stored under k and the
\* stored value otherwise; it never raises, never calls the default factory
\* and never changes the mapping.
C17_Get ==
    [][(op'.name = "get" /\ op'.c = 0) =>
          /\ out'.err = ""
          /\ out'.calls = 0
          /\ dict' = dict
          /\ out'.val = IF op'.k \in DOMAIN dict THEN dict[op'.k] ELSE op'.v
      ]_vars

C17_Witness ==
    /\ OnFork("get")
    /\ op.k \notin DOMAIN dict
    /\ op.v = Obj(1)
    /\ out.val = Obj(1)
    /\ factory = "Leaf"

\* the values a band fork holds under the labels of mode m, in label order
InBandOrder(d, m, seq) ==
    /\ Len(seq) = Len(Bands(m))
    /\ \A i \in 1..Len(Bands(m)) :
          Bands(m)[i] \in DOMAIN d /\ seq[i] = d[Bands(m)[i]]

\* C16: an iterate() that follows an iterate() on the same container yields
\* the same instances in the same order and makes no default, also when the
\* first one made the defaults; a band fork yields the values of its bands
\* in the order of its mode's labels, a Pipe or Pipeline its items in their
\* order.
C16_IterateStable ==
    [][op'.name = "iterate" =>
          /\ (op.name = "iterate" /\ op.c = op'.c) =>
                 out'.seq = out.seq /\ out'.calls = 0 /\ dict' = dict
          /\ IF op'.c = 0 THEN InBandOrder(dict', mode_t', out'.seq)
             ELSE out'.seq = heap'[op'.c].items
      ]_vars

C16_Witness ==
    /\ OnFork("iterate")
    /\ out.calls = 0
    /\ mode_t = "CMYK"
    /\ Len(out.seq) = 4
    /\ \A i \in 1..4 : out.seq[i].t = "obj" /\ out.seq[i].n \in Pool(CMYKLabels[i])

\* C18: a band fork's band_labels are the labels of its current mode in
\* every state, and iterate() yields one value for each of them, in their
\* order: the value the fork holds under that label.
C18_BandLabels ==
    cls = "BandFork" =>
        /\ band_labels(mode_t) = Bands(mode_t)
        /\ OnFork("iterate") =>
              /\ Len(out.seq) = Len(band_labels(mode_t))
              /\ InBandOrder(dict, mode_t, out.seq)
              /\ out.err = ""

C18_Witness ==
    /\ OnFork("iterate")
    /\ cls = "BandFork"
    /\ mode_t = "CMYK"
    /\ out.calls = 4
    /\ "G" \in DOMAIN dict /\ dict["G"] = Obj(1)
    /\ Len(out.seq) = 4

\* the exception process raises on value v; "" when it returns
ErrOf(h, v) == ProcessVal(h, v, SrcImage(1)).err

\* the positions of a sequence of values whose process raises
FailAt(h, vals) == {i \in 1..Len(vals) : ErrOf(h, vals[i]) # ""}

\* the first of a non-empty set of positions
First(S) == CHOOSE i \in S : \A j \in S : i <= j

\* the bands of a fork whose processor raises; a band the fork holds nothing
\* under gets a default, an instance of a processor class, which does not
\* fail
BandFailAt(h, d, labels) ==
    {i \in 1..Len(labels) : labels[i] \in DOMAIN d /\ ErrOf(h, d[labels[i]]) # ""}

\* C15: when a step of a Pipe or Pipeline, or the processor of a band of a
\* fork, raises in process, the container's process raises that exception:
\* the exception is that of the first step or band in order that fails, no
\* image comes back, and in a fork the bands after the failing one are not
\* looked up (no default is made for them).
C15_Propagates ==
    [][op'.name = "process" =>
          IF op'.c # 0
          THEN LET bad == FailAt(heap, heap[op'.c].items) IN
               IF bad = {} THEN out'.err = ""
               ELSE /\ out'.err = ErrOf(heap, heap[op'.c].items[First(bad)])
                    /\ out'.img = NoImg
                    /\ heap'[op'.c] = heap[op'.c]
          ELSE LET labels == Bands(mode_t)
                   bad == BandFailAt(heap, dict, labels)
               IN  IF bad = {} THEN out'.err = ""
                   ELSE /\ out'.err = ErrOf(heap, dict[labels[First(bad)]])
                        /\ out'.img = NoImg
                        /\ \A i \in 1..Len(labels) :
                              labels[i] \in DOMAIN dict' \ DOMAIN dict
                                  => i < First(bad)
                        /\ \A k \in DOMAIN dict : dict'[k] = dict[k]
                        /\ out'.calls = Cardinality(DOMAIN dict' \ DOMAIN dict)
      ]_vars

C15_Witness ==
    /\ OnFork("process")
    /\ cls = "BandFork"
    /\ out.err = "ValueError"
    /\ out.img = NoImg
    /\ DOMAIN dict = {"R", "G", "B"}
    /\ dict["G"] = Obj(Slot)
    /\ IsKind(heap, dict["G"], "Pipeline")
    /\ heap[Slot].items = <<Obj(1), Failing("ValueError")>>
    /\ dict["B"] = Failing("OSError")

\* band i of the overprint fork holds a pipeline whose last step is the
\* band's ink
EndsWithInk(i) ==
    /\ CMYKLabels[i] \in DOMAIN dict
    /\ IsKind(heap, dict[CMYKLabels[i]], "Pipeline")
    /\ LET its == heap[dict[CMYKLabels[i]].n].items IN
       its # <<>> /\ its[Len(its)] = inks[i]

\* C19: an overprint fork constructed with a default factory other than
\* None has its inks applied, one constructed with None holds just what the
\* caller gave it, and every update(...) completes and leaves each of the
\* four bands with a pipeline whose last step is the band's ink.
C19_InkRuns ==
    (OnFork("construct") \/ OnFork("update")) /\ cls = "OverprintFork" =>
        IF op.name = "construct" /\ op.k = "None"
        THEN /\ out.calls = 0
             /\ Cardinality(DOMAIN dict) = op.i
             /\ \A k \in DOMAIN dict : dict[k] \in UserObjs(heap)
        ELSE /\ out.err = ""
             /\ \A i \in 1..4 : EndsWithInk(i)

\* s is the beginning of t
IsPrefix(s, t) == Len(s) <= Len(t) /\ SubSeq(t, 1, Len(s)) = s

\* C20: ink augmentation completes and treats each band C, M, Y, K thus: a
\* band holding a pipeline keeps that pipeline and its steps in order, with
\* the band's ink after them unless it was the last step already; a band
\* holding another processor, or nothing, gets a new pipeline of two steps,
\* that processor (or a new instance of the default factory) and the ink.
C20_AugmentationStep ==
    [][op'.name = "apply_CMYK_inks" =>
          /\ out'.err = ""
          /\ \A i \in 1..4 :
                LET k == CMYKLabels[i] IN
                IF k \in DOMAIN dict /\ HasAppend(heap, dict[k])
                THEN /\ dict'[k] = dict[k]
                     /\ IsPrefix(heap[dict[k].n].items, heap'[dict[k].n].items)
                     /\ inks[i] \in Range(heap'[dict[k].n].items)
                ELSE /\ IsKind(heap', dict'[k], "Pipeline")
                     /\ dict'[k].n \in Pool(k)
                     /\ LET its == heap'[dict'[k].n].items IN
                        /\ Len(its) = 2
                        /\ its[2] = inks[i]
                        /\ IF k \in DOMAIN dict THEN its[1] = dict[k]
                           ELSE IsKind(heap', its[1], factory)
                                  /\ its[1].n \in Pool(k)
      ]_vars

\* C21: a mode assignment a band fork accepts leaves its mapping as it was,
\* bands of the previous mode included, so that once the previous mode is
\* assigned again every band of it that held a processor resolves to that
\* same instance, unaltered, without a call of the default factory.
C21_ModeKeepsBands ==
    [][(op'.name = "mode" /\ cls = "BandFork" /\ out'.err = "") =>
          /\ dict' = dict
          /\ LET back == ModeSetter(cls', mode_t', [t |-> "mode", m |-> mode_t])
                 labels == band_labels(back.mode)
             IN  /\ back.err = ""
                 /\ back.mode = mode_t
                 /\ \A i \in 1..Len(labels) :
                       labels[i] \in DOMAIN dict =>
                          LET g == GetItem(DictAfterMode(dict', back.mode), heap',
                                           0, factory', labels[i])
                          IN  /\ g.val = dict[labels[i]]
                              /\ g.calls = 0
                              /\ g.val.t = "obj" =>
                                    heap'[g.val.n] = heap[g.val.n]
      ]_vars

C21_Witness ==
    /\ OnFork("mode")
    /\ cls = "BandFork"
    /\ out.err = ""
    /\ op.k = "RGB"
    /\ mode_t = "RGB"
    /\ {"R", "G", "B", "C"} \subseteq DOMAIN dict
    /\ dict["R"].t = "obj" /\ dict["R"].n \in Pool("R")
    /\ dict["C"].t = "obj" /\ dict["C"].n \in Pool("C")
    /\ dict["G"] = Obj(1)

\* C22: a process(image) that a band fork completes calls the default
\* factory once for each label of the current mode the fork held nothing
\* under, and for no other label; afterwards the fork's keys are those it
\* had and the labels of the mode, each new key holds a new instance of the
\* factory made for it, and each entry it had is unchanged.
C22_ProcessVivifies ==
    [][(op'.name = "process" /\ op'.c = 0 /\ cls = "BandFork"
           /\ out'.err = "") =>
          LET labels == Range(band_labels(mode_t))
              missing == labels \ DOMAIN dict
          IN  /\ out'.calls = Cardinality(missing)
              /\ DOMAIN dict' = DOMAIN dict \cup labels
              /\ \A k \in DOMAIN dict : dict'[k] = dict[k]
              /\ \A k \in missing :
                    /\ IsKind(heap', dict'[k], factory)
                    /\ dict'[k].n \in Pool(k)
                    /\ ~IsKind(heap, dict'[k], factory)
      ]_vars

C22_Witness ==
    /\ OnFork("process")
    /\ cls = "BandFork"
    /\ factory = "Leaf"
    /\ mode_t = "RGB"
    /\ out.err = ""
    /\ out.calls = 2
    /\ DOMAIN dict = {"R", "G", "B", "C", "M", "Y", "K"}
    /\ dict["G"] = Obj(Slot)

====
